---------------------------- MODULE Spec2Model ----------------------------
(***************************************************************************)
(* Model of the federated-learning audit dashboard (src/app.py): the       *)
(* ledger reader with its single retry, the reshaper, the one-second       *)
(* refresh cache, the render step and the live poll loop, running against  *)
(* an external writer that rewrites the ledger document without            *)
(* coordination.                                                           *)
(*                                                                         *)
(* Time is counted in tenths of a second: time.sleep(0.1) is 1 unit, the   *)
(* cache ttl of 1 second is 10 units, time.sleep(5) is 50 units.           *)
(*                                                                         *)
(* The ledger document is a sequence of tokens  [  record  ,  record  ]    *)
(* so that a document caught in the middle of a write is a strict prefix   *)
(* of a well-formed one, and parsing is something that can fail.           *)
(***************************************************************************)
EXTENDS Integers, Sequences, FiniteSets, TLC

VARIABLES
    doc,            \* the ledger file: [exists, content]
    wpc,            \* external writer: "idle", "removed" or "writing"
    wledger,        \* the ledger the writer holds in memory
    pc,             \* position of the dashboard script
    phase,          \* "initial" (lines 259-262) or "loop" (lines 266-270)
    ledger,         \* load_ledger()'s return value
    df,             \* the script's df (line 260 / 268)
    frame,          \* what the placeholder shows
    cache,          \* st.cache_data slot of get_cached_data: [valid, df]
    cacheAge,       \* tenths of a second since the slot was filled, capped at TTL
    steps,          \* the steps taken since the current get_cached_data() call
    reads,          \* what each read of the current load_ledger() call observed
    rounds_to_show, \* the value bound to the name rounds_to_show, or Unbound
    auto_refresh,   \* st.session_state.auto_refresh
    err,            \* the uncaught exception that ended the script, or "none"
    call            \* a formatter call on its own: arguments and return value

vars == <<doc, wpc, wledger, pc, phase, ledger, df, frame, cache, cacheAge,
          steps, reads, rounds_to_show, auto_refresh, err, call>>

writerVars == <<doc, wpc, wledger>>

----------------------------------------------------------------------------
(* Bounds of the model *)

MaxRecords == 2     \* records the writer appends in one run
MaxShow == 2        \* largest visible-round window tried
MaxRows == 4        \* longest record sequence given to ledger_to_df on its own

(* Program constants, in tenths of a second *)

TTL == 10
RetryDelay == 1
PollInterval == 50

(* "no value" in a numeric cell (pandas NaN); accuracies are percentages 0..100 *)
NoValue == -1

(* rounds_to_show when the name has no binding *)
Unbound == -1

(* the round of the node-performance view, line 202 *)
PerfRound == 10

----------------------------------------------------------------------------
(* Generic helpers *)

Range(s) == {s[i] : i \in 1..Len(s)}

Min(a, b) == IF a < b THEN a ELSE b

RECURSIVE Count(_, _)
Count(s, x) ==
    IF s = <<>> THEN 0
    ELSE (IF Head(s) = x THEN 1 ELSE 0) + Count(Tail(s), x)

----------------------------------------------------------------------------
(* Round records and the ledger document *)

RequiredFields ==
    <<"round", "timestamp", "global_accuracy", "ipfs_hash", "block_tx", "node_accuracies">>

(* Python values that the formatter tells apart with isinstance: a str is  *)
(* its sequence of characters                                              *)
PyStr(chars) == [type |-> "str", v |-> chars]
PyInt(n) == [type |-> "int", v |-> n]

ShortHash == PyStr(<<"Q", "m">>)
ShortTx == PyStr(<<"0", "x">>)
LongTx == PyStr(<<"0", "x", "a", "1", "b", "2", "c", "3", "d", "4", "e", "5",
                  "f", "6", "a", "7", "b", "8">>)

(* node_accuracies is an ordered mapping: a sequence of [k, v] with distinct k *)
Node(k, v) == [k |-> k, v |-> v]

MkRecord(round, ts, acc, nodes) ==
    [round |-> round, timestamp |-> ts, global_accuracy |-> acc,
     ipfs_hash |-> ShortHash, block_tx |-> ShortTx, node_accuracies |-> nodes]

RecA == MkRecord(2, "ta", 62, <<Node("s1", 60), Node("s2", 64)>>)
RecB == [round |-> 1, timestamp |-> "tb", global_accuracy |-> 50,
         ipfs_hash |-> ShortHash, block_tx |-> ShortTx,
         node_accuracies |-> <<Node("s1", 50)>>, notes |-> "n"]
(* a record that lacks the required field timestamp *)
RecBad == [round |-> 3, global_accuracy |-> 70, ipfs_hash |-> ShortHash, block_tx |-> ShortTx,
           node_accuracies |-> <<Node("s2", 0)>>]

WriterRecords == {RecA, RecB, RecBad}

TokOpen == [t |-> "["]
TokClose == [t |-> "]"]
TokSep == [t |-> ","]
TokRec(r) == [t |-> "rec", r |-> r]

RECURSIVE Items(_)
Items(L) ==
    IF L = <<>> THEN <<>>
    ELSE IF Len(L) = 1 THEN <<TokRec(L[1])>>
    ELSE <<TokRec(L[1]), TokSep>> \o Items(Tail(L))

(* the writer's serialisation of a ledger *)
Serialize(L) == <<TokOpen>> \o Items(L) \o <<TokClose>>

AbsentDoc == [exists |-> FALSE, content |-> <<>>]
FileWith(c) == [exists |-> TRUE, content |-> c]

(* a parser that salvages the complete records of a truncated document *)
ParseJsonLenient(c) ==
    LET recs == SelectSeq(c, LAMBDA tok : tok.t = "rec")
    IN  [ok |-> Len(c) >= 1 /\ c[1].t = "[",
         value |-> [i \in 1..Len(recs) |-> recs[i].r]]

(* json.loads on the document content: [ok, value]; ok is FALSE for        *)
(* JSONDecodeError.  The content must be  [  ]  or [ rec (, rec)* ].       *)
ParseJson(c) ==
    LET n == Len(c)
        inner == n - 2
        shape == /\ n >= 2
                 /\ c[1].t = "["
                 /\ c[n].t = "]"
                 /\ \/ inner = 0
                    \/ /\ inner % 2 = 1
                       /\ \A i \in 1..inner :
                            c[i + 1].t = (IF i % 2 = 1 THEN "rec" ELSE ",")
    IN  IF shape
        THEN [ok |-> TRUE, value |-> [i \in 1..(inner + 1) \div 2 |-> c[2 * i].r]]
        ELSE [ok |-> FALSE, value |-> <<>>]

----------------------------------------------------------------------------
(* Ledger Reshaper: ledger_to_df *)

BaseColumns ==
    <<"round", "timestamp", "global_accuracy", "ipfs_hash", "block_tx", "notes">>

EmptyTable == [columns |-> <<>>, rows |-> <<>>]

HasRequired(entry) ==
    \A i \in 1..Len(RequiredFields) : RequiredFields[i] \in DOMAIN entry

NodeColumn(k) == "Store_" \o k

(* the keys of the dict built for one entry, in insertion order (lines 111-120) *)
RowKeys(entry) ==
    BaseColumns \o
    [i \in 1..Len(entry.node_accuracies) |-> NodeColumn(entry.node_accuracies[i].k)]

(* the dict built for one entry (lines 111-120) *)
RowDict(entry) ==
    LET nodes == entry.node_accuracies
        keys == RowKeys(entry)
    IN  [c \in Range(keys) |->
            IF c = "notes"
            THEN (IF "notes" \in DOMAIN entry THEN entry.notes ELSE "")
            ELSE IF c \in Range(BaseColumns) THEN entry[c]
            ELSE nodes[CHOOSE i \in 1..Len(nodes) : NodeColumn(nodes[i].k) = c].v]

RECURSIVE AppendNew(_, _)
AppendNew(cols, keys) ==
    IF keys = <<>> THEN cols
    ELSE AppendNew(IF Head(keys) \in Range(cols) THEN cols ELSE Append(cols, Head(keys)),
                   Tail(keys))

(* pd.DataFrame(rows): the columns are the keys in order of first appearance *)
RECURSIVE FrameColumns(_)
FrameColumns(entries) ==
    IF entries = <<>> THEN <<>>
    ELSE AppendNew(FrameColumns(SubSeq(entries, 1, Len(entries) - 1)),
                   RowKeys(entries[Len(entries)]))

(* a frame built with 0 where a row lacks a key *)
FrameRowsZeroFill(entries) ==
    LET cols == Range(FrameColumns(entries))
    IN  [i \in 1..Len(entries) |->
            LET d == RowDict(entries[i])
            IN  [c \in cols |-> IF c \in DOMAIN d THEN d[c] ELSE 0]]

(* pd.DataFrame(rows): a key a row lacks becomes "no value" in that row *)
FrameRows(entries) ==
    LET cols == Range(FrameColumns(entries))
    IN  [i \in 1..Len(entries) |->
            LET d == RowDict(entries[i])
            IN  [c \in cols |-> IF c \in DOMAIN d THEN d[c] ELSE NoValue]]

IndexOrders(n) ==
    {p \in [1..n -> 1..n] : \A i, j \in 1..n : i # j => p[i] # p[j]}

(* the input order kept among equal rounds *)
StableOrders(rows) ==
    {p \in IndexOrders(Len(rows)) :
        \A i, j \in 1..Len(rows) :
            i < j => \/ rows[p[i]]["round"] < rows[p[j]]["round"]
                     \/ rows[p[i]]["round"] = rows[p[j]]["round"] /\ p[i] < p[j]}

(* df.sort_values("round") with the default kind="quicksort": ascending by  *)
(* round; the order among equal rounds is whatever the sort produces        *)
SortOrders(rows) ==
    {p \in IndexOrders(Len(rows)) :
        \A i, j \in 1..Len(rows) :
            i < j => rows[p[i]]["round"] <= rows[p[j]]["round"]}

Reorder(rows, p) == [i \in 1..Len(rows) |-> rows[p[i]]]

DfOk(t) == [err |-> "none", df |-> t]
DfRaise(e) == [err |-> e, df |-> EmptyTable]

(* every outcome ledger_to_df(ledger) can have: a table, or KeyError raised *)
(* by entry["..."] on a record that lacks a required field                  *)
ledger_to_df(entries) ==
    IF entries = <<>> THEN {DfOk(EmptyTable)}
    ELSE IF \E i \in 1..Len(entries) : ~HasRequired(entries[i]) THEN {DfRaise("KeyError")}
    ELSE {DfOk([columns |-> FrameColumns(entries),
                rows |-> Reorder(FrameRows(entries), p)]) :
            p \in SortOrders(FrameRows(entries))}

----------------------------------------------------------------------------
(* Ledger Reader: one "with open ... read ... json.loads" block            *)
(* (lines 87-92 and 96-100), run against the document as it is at the read *)

Returned(v) == [kind |-> "return", value |-> v]
Raised(e) == [kind |-> "raise", value |-> <<>>, exc |-> e]

ReadAndParse(d) ==
    IF ~d.exists THEN Raised("FileNotFoundError")
    ELSE IF d.content = <<>> THEN Returned(<<>>)
    ELSE IF ParseJson(d.content).ok THEN Returned(ParseJson(d.content).value)
    ELSE Raised("JSONDecodeError")

(* a handler that names json.JSONDecodeError alone *)
CaughtDecodeOnly(outcome) ==
    outcome.kind = "raise" /\ outcome.exc = "JSONDecodeError"

(* except (json.JSONDecodeError, FileNotFoundError) on lines 93 and 101 *)
Caught(outcome) ==
    outcome.kind = "raise" /\ outcome.exc \in {"JSONDecodeError", "FileNotFoundError"}

Attempt(next, value, exc) == [next |-> next, value |-> value, exc |-> exc]

(* the outer try block without the "if not content" test of lines 90-91 *)
FirstAttemptNoEmptyCheck(d) ==
    IF d.exists /\ ParseJson(d.content).ok
    THEN Attempt("return", ParseJson(d.content).value, "none")
    ELSE Attempt("retry", <<>>, "none")

(* the outer try block, lines 86-93: return, go on to the retry, or let the *)
(* exception escape                                                         *)
FirstAttempt(d) ==
    LET o == ReadAndParse(d)
    IN  IF o.kind = "return" THEN Attempt("return", o.value, "none")
        ELSE IF Caught(o) THEN Attempt("retry", <<>>, "none")
        ELSE Attempt("raise", <<>>, o.exc)

(* an inner try block that retries again on failure *)
RetryAttemptRetries(d) ==
    LET o == ReadAndParse(d)
    IN  IF o.kind = "return" THEN Attempt("return", o.value, "none")
        ELSE Attempt("retry", <<>>, "none")

(* an inner try block without the except clause of lines 101-102 *)
RetryAttemptReraises(d) ==
    LET o == ReadAndParse(d)
    IN  IF o.kind = "return" THEN Attempt("return", o.value, "none")
        ELSE Attempt("raise", <<>>, o.exc)

(* a retry whose result is thrown away *)
RetryAttemptGivesUp(d) == Attempt("return", <<>>, "none")

(* the inner try block, lines 95-102 *)
RetryAttempt(d) ==
    LET o == ReadAndParse(d)
    IN  IF o.kind = "return" THEN Attempt("return", o.value, "none")
        ELSE IF Caught(o) THEN Attempt("return", <<>>, "none")
        ELSE Attempt("raise", <<>>, o.exc)

(* a file opened for writing is truncated *)
AfterReadTruncates(d) == IF d.exists THEN FileWith(<<>>) ELSE d

(* open(LEDGER, 'r') and f.read() leave the file as it is *)
AfterRead(d) == d

----------------------------------------------------------------------------
(* Refresh Cache: @st.cache_data(ttl=1) *)

NoCache == [valid |-> FALSE, df |-> EmptyTable]

(* a cache without a ttl *)
CacheHitNoExpiry(c, age) == c.valid

CacheHit(c, age) == c.valid /\ age < TTL

Elapse(age, d) == Min(age + d, TTL)

----------------------------------------------------------------------------
(* Rendering: render_dashboard_content(df, rounds_to_show) *)

NoFrame == [kind |-> "none", table |-> EmptyTable]

(* df.tail(n) *)
TailRows(t, n) ==
    [columns |-> t.columns,
     rows |-> SubSeq(t.rows, Len(t.rows) - Min(n, Len(t.rows)) + 1, Len(t.rows))]

(* str.startswith('Store_') on the column names of the model: the six     *)
(* base columns and NodeColumn(k) for the node identifiers in use          *)
NodeIdentifiers == {"s1", "s2"}
StartsWithStore(col) == col \in {NodeColumn(k) : k \in NodeIdentifiers}

(* chr(code) for the codes of the capital letters *)
AsciiUpper == <<"A", "B", "C", "D", "E", "F">>
Chr(code) == AsciiUpper[code - 64]

(* the text of hash_string[-end_chars:] read as "the last end_chars        *)
(* characters", which is what the slice gives only when end_chars > 0      *)
LastChars(chars, end_chars) ==
    SubSeq(chars, Len(chars) - Min(end_chars, Len(chars)) + 1, Len(chars))

(* hash_string[-end_chars:] : -0 is 0, so with end_chars = 0 the slice is  *)
(* the whole string                                                        *)
NegSlice(chars, end_chars) ==
    IF end_chars = 0 THEN chars ELSE LastChars(chars, end_chars)

DefaultKeep == 8

truncate_hash(hash_string, start_chars, end_chars) ==
    IF hash_string.type = "str" /\ Len(hash_string.v) > start_chars + end_chars
    THEN PyStr(SubSeq(hash_string.v, 1, Min(start_chars, Len(hash_string.v)))
               \o <<".", ".", ".">> \o NegSlice(hash_string.v, end_chars))
    ELSE hash_string

(* [col for col in columns if col.startswith('Store_')] *)
StoreColumns(columns) == SelectSeq(columns, StartsWithStore)

(* a relabeling that derives the alias from the node identifier *)
RenameByIdentifier(columns) ==
    LET business_cols == StoreColumns(columns)
    IN [i \in 1..Len(business_cols) |->
           [col |-> business_cols[i],
            alias |-> "Store_" \o
                      Chr(65 + (IF business_cols[i] = NodeColumn("s1") THEN 0 ELSE 1))]]

(* lines 148-151: the i-th Store_ column (from 0) is relabeled Store_<chr(65 + i)> *)
rename_map(columns) ==
    LET business_cols == StoreColumns(columns)
    IN [i \in 1..Len(business_cols) |->
           [col |-> business_cols[i], alias |-> "Store_" \o Chr(65 + (i - 1))]]

(* lines 209-211: the name map of the node-performance view *)
node_name_map(node_columns) ==
    [i \in 1..Len(node_columns) |->
        [col |-> node_columns[i], alias |-> "Store_" \o Chr(65 + (i - 1))]]

HasAlias(map, col) == \E i \in 1..Len(map) : map[i].col = col
AliasOf(map, col) == map[CHOOSE i \in 1..Len(map) : map[i].col = col].alias

(* lines 143-152: hashes shortened, then the columns renamed through rename_map *)
df_display(view) ==
    LET map == rename_map(view.columns)
        shown(c) == IF HasAlias(map, c) THEN AliasOf(map, c) ELSE c
        cell(row, c) == IF c \in {"ipfs_hash", "block_tx"}
                        THEN truncate_hash(row[c], DefaultKeep, DefaultKeep)
                        ELSE row[c]
        source(name) == CHOOSE c \in Range(view.columns) : shown(c) = name
    IN [columns |-> [i \in 1..Len(view.columns) |-> shown(view.columns[i])],
        rows |-> [r \in 1..Len(view.rows) |->
                     [name \in {shown(c) : c \in Range(view.columns)} |->
                         cell(view.rows[r], source(name))]]]

(* lines 202-224: the node-performance view of round 10 *)
node_performance(view) ==
    LET round_10_data == SelectSeq(view.rows, LAMBDA row : row.round = PerfRound)
    IN IF round_10_data = <<>> THEN [kind |-> "not_available"]
       ELSE LET round_10_latest == round_10_data[Len(round_10_data)]
                node_columns == StoreColumns(view.columns)
                reported == SelectSeq(node_columns,
                                      LAMBDA col : round_10_latest[col] # NoValue)
                performance_data ==
                    [i \in 1..Len(reported) |->
                        [Node |-> AliasOf(node_name_map(node_columns), reported[i]),
                         Accuracy |-> round_10_latest[reported[i]]]]
            IN IF performance_data # <<>>
               THEN [kind |-> "chart", node_name_map |-> node_name_map(node_columns),
                     data |-> performance_data]
               ELSE [kind |-> "no_data", node_name_map |-> node_name_map(node_columns)]

(* the delta of the accuracy tile taken against the table before df.tail *)
DeltaOfFullTable(t, view) ==
    LET latest == view.rows[Len(view.rows)]
        prev_acc == IF Len(t.rows) > 1 THEN t.rows[Len(t.rows) - 1].global_accuracy
                    ELSE latest.global_accuracy
    IN latest.global_accuracy - prev_acc

(* lines 166-167, with accuracies as whole percentages *)
Delta(t, view) ==
    LET latest == view.rows[Len(view.rows)]
        prev_acc == IF Len(view.rows) > 1
                    THEN view.rows[Len(view.rows) - 1].global_accuracy
                    ELSE latest.global_accuracy
    IN latest.global_accuracy - prev_acc

(* lines 140-254: what is drawn once the table is known not to be empty;   *)
(* on a table without columns line 144 raises, on one without rows line 155 *)
RenderBody(t, n) ==
    LET view == TailRows(t, n)
    IN IF "ipfs_hash" \notin Range(view.columns)
       THEN [kind |-> "error", table |-> view, err |-> "KeyError"]
       ELSE IF view.rows = <<>>
       THEN [kind |-> "error", table |-> view, err |-> "IndexError"]
       ELSE LET latest == view.rows[Len(view.rows)]
                node_columns == StoreColumns(view.columns)
            IN [kind |-> "dashboard", table |-> view,
                display |-> df_display(view),
                current_round |-> latest.round,
                accuracy |-> latest.global_accuracy,
                delta |-> Delta(t, view),
                active_nodes |-> Len(node_columns),
                performance |-> node_performance(view)]

(* render_dashboard_content without lines 135-137 *)
RenderWithoutEmptyCheck(t, n) == RenderBody(t, n)

render_dashboard_content(t, n) ==
    IF t.rows = <<>> THEN [kind |-> "notice", table |-> EmptyTable]
    ELSE RenderBody(t, n)

----------------------------------------------------------------------------
(* Initial state: the script has run lines 1-257 of a fresh session and is *)
(* about to call get_cached_data() on line 260; no ledger file exists yet  *)

(* the visible-round window the operator chooses *)
(* no formatter call is being looked at on its own *)
NoCall == [fn |-> "none"]

WindowValues == 1..MaxShow

Init ==
    /\ doc = AbsentDoc
    /\ wpc = "idle"
    /\ wledger = <<>>
    /\ pc = "get"
    /\ phase = "initial"
    /\ ledger = <<>>
    /\ df = EmptyTable
    /\ frame = NoFrame
    /\ cache = NoCache
    /\ cacheAge = TTL
    /\ steps = <<>>
    /\ reads = <<>>
    /\ rounds_to_show \in {Unbound} \cup WindowValues
    /\ auto_refresh = TRUE
    /\ err = "none"
    /\ call = NoCall

----------------------------------------------------------------------------
(* The external writer.  It rewrites the whole document, either in place   *)
(* (open for writing truncates the file) or by removing the file and       *)
(* creating it again, and its output reaches the file in pieces.           *)

readerVars == <<pc, phase, ledger, df, frame, cache, cacheAge, steps, reads,
                rounds_to_show, auto_refresh, err, call>>

WriterBegin ==
    /\ wpc = "idle"
    /\ \E add \in {<<>>} \cup {<<r>> : r \in WriterRecords} :
         /\ Len(wledger) + Len(add) <= MaxRecords
         /\ wledger' = wledger \o add
    /\ \/ doc' = FileWith(<<>>) /\ wpc' = "writing"
       \/ doc.exists /\ doc' = AbsentDoc /\ wpc' = "removed"
    /\ UNCHANGED readerVars

WriterCreate ==
    /\ wpc = "removed"
    /\ doc' = FileWith(<<>>)
    /\ wpc' = "writing"
    /\ UNCHANGED <<wledger, readerVars>>

WriterWrite ==
    /\ wpc = "writing"
    /\ LET target == Serialize(wledger)
       IN  \E n \in (Len(doc.content) + 1)..Len(target) :
             /\ doc' = FileWith(SubSeq(target, 1, n))
             /\ wpc' = IF n = Len(target) THEN "idle" ELSE "writing"
    /\ UNCHANGED <<wledger, readerVars>>

Writer == WriterBegin \/ WriterCreate \/ WriterWrite

----------------------------------------------------------------------------
(* get_cached_data(): the cache lookup of @st.cache_data(ttl=1) *)

GetCachedData ==
    /\ pc = "get"
    /\ reads' = <<>>
    /\ ledger' = <<>>
    /\ IF CacheHit(cache, cacheAge)
       THEN /\ df' = cache.df
            /\ steps' = <<"hit">>
            /\ pc' = "render"
       ELSE /\ df' = df
            /\ steps' = <<"miss">>
            /\ pc' = "exists"
    /\ UNCHANGED <<writerVars, call, phase, frame, cache, cacheAge,
                   rounds_to_show, auto_refresh, err>>

(* load_ledger(), lines 84-85 *)
LoadExists ==
    /\ pc = "exists"
    /\ steps' = Append(steps, IF doc.exists THEN "exists" ELSE "absent")
    /\ IF ~doc.exists
       THEN ledger' = <<>> /\ pc' = "reshape"
       ELSE ledger' = ledger /\ pc' = "read"
    /\ UNCHANGED <<writerVars, call, phase, df, frame, cache, cacheAge, reads,
                   rounds_to_show, auto_refresh, err>>

(* where load_ledger() goes after one of its try blocks *)
AfterAttempt(a) ==
    /\ pc' = CASE a.next = "return" -> "reshape"
               [] a.next = "retry" -> "delay"
               [] OTHER -> "crashed"
    /\ ledger' = a.value
    /\ err' = IF a.next = "raise" THEN a.exc ELSE err

(* load_ledger(), lines 86-93 *)
LoadRead ==
    /\ pc = "read"
    /\ steps' = Append(steps, "read")
    /\ reads' = Append(reads, doc)
    /\ doc' = AfterRead(doc)
    /\ AfterAttempt(FirstAttempt(doc))
    /\ UNCHANGED <<wpc, wledger, call, phase, df, frame, cache, cacheAge,
                   rounds_to_show, auto_refresh>>

(* load_ledger(), line 94: time.sleep(0.1) *)
LoadDelay ==
    /\ pc = "delay"
    /\ steps' = Append(steps, "delay")
    /\ cacheAge' = Elapse(cacheAge, RetryDelay)
    /\ pc' = "retry"
    /\ UNCHANGED <<writerVars, call, phase, ledger, df, frame, cache, reads,
                   rounds_to_show, auto_refresh, err>>

(* load_ledger(), lines 95-102 *)
LoadRetry ==
    /\ pc = "retry"
    /\ steps' = Append(steps, "read")
    /\ reads' = Append(reads, doc)
    /\ doc' = AfterRead(doc)
    /\ AfterAttempt(RetryAttempt(doc))
    /\ UNCHANGED <<wpc, wledger, call, phase, df, frame, cache, cacheAge,
                   rounds_to_show, auto_refresh>>

(* get_cached_data(), line 129: ledger_to_df(ledger); the result is stored *)
(* in the cache slot and returned to line 260 / 268.  An exception leaves  *)
(* the slot as it was and ends the script.                                 *)
Reshape ==
    /\ pc = "reshape"
    /\ steps' = Append(steps, "reshape")
    /\ \E o \in ledger_to_df(ledger) :
         IF o.err = "none"
         THEN /\ df' = o.df
              /\ cache' = [valid |-> TRUE, df |-> o.df]
              /\ cacheAge' = 0
              /\ pc' = "render"
              /\ err' = err
         ELSE /\ pc' = "crashed"
              /\ err' = o.err
              /\ UNCHANGED <<df, cache, cacheAge>>
    /\ UNCHANGED <<writerVars, call, phase, ledger, frame, reads, rounds_to_show, auto_refresh>>

(* lines 261-262 / 269-270: the arguments are evaluated, then the frame is *)
(* drawn.  The script never assigns rounds_to_show: without a binding the  *)
(* call raises NameError.                                                  *)
Render ==
    /\ pc = "render"
    /\ steps' = Append(steps, "render")
    /\ IF rounds_to_show = Unbound
       THEN /\ pc' = "crashed"
            /\ err' = "NameError"
            /\ frame' = frame
       ELSE LET drawn == render_dashboard_content(df, rounds_to_show)
            IN IF drawn.kind = "error"
               THEN /\ pc' = "crashed"
                    /\ err' = drawn.err
                    /\ frame' = frame
               ELSE /\ pc' = "rendered"
                    /\ err' = err
                    /\ frame' = drawn
    /\ UNCHANGED <<writerVars, call, phase, ledger, df, cache, cacheAge, reads,
                   rounds_to_show, auto_refresh>>

(* line 265 after the initial render; the end of the loop body otherwise *)
AfterRender ==
    /\ pc = "rendered"
    /\ pc' = IF phase = "loop" \/ auto_refresh THEN "sleep" ELSE "done"
    /\ phase' = IF pc' = "sleep" THEN "loop" ELSE phase
    /\ UNCHANGED <<writerVars, call, ledger, df, frame, cache, cacheAge, steps, reads,
                   rounds_to_show, auto_refresh, err>>

(* line 267: time.sleep(5) *)
PollSleep ==
    /\ pc = "sleep"
    /\ cacheAge' = Elapse(cacheAge, PollInterval)
    /\ pc' = "get"
    /\ UNCHANGED <<writerVars, call, phase, ledger, df, frame, cache, steps, reads,
                   rounds_to_show, auto_refresh, err>>

(* The script is run again from the top (a widget event or a page reload): *)
(* session state and the cache outlive the run, the script's own variables *)
(* do not.                                                                 *)
Rerun ==
    /\ pc \in {"sleep", "done", "crashed"}
    /\ pc' = "get"
    /\ phase' = "initial"
    /\ ledger' = <<>>
    /\ df' = EmptyTable
    /\ frame' = NoFrame
    /\ steps' = <<>>
    /\ reads' = <<>>
    /\ err' = "none"
    /\ UNCHANGED <<writerVars, call, cache, cacheAge, rounds_to_show, auto_refresh>>

(* The operator switches auto-refresh off before the first tick *)
ToggleOff ==
    /\ auto_refresh
    /\ phase = "initial"
    /\ auto_refresh' = FALSE
    /\ UNCHANGED <<writerVars, call, pc, phase, ledger, df, frame, cache, cacheAge, steps, reads,
                   rounds_to_show, err>>

(* Time passes.  Only the cache lookup reads the clock, so the time the    *)
(* other steps take is accounted for when the script reaches the lookup.  *)
Tick ==
    /\ pc = "get"
    /\ cache.valid
    /\ cacheAge < TTL
    /\ cacheAge' = Elapse(cacheAge, 1)
    /\ UNCHANGED <<writerVars, call, pc, phase, ledger, df, frame, cache, steps, reads,
                   rounds_to_show, auto_refresh, err>>

Reader ==
    \/ GetCachedData
    \/ LoadExists
    \/ LoadRead
    \/ LoadDelay
    \/ LoadRetry
    \/ Reshape
    \/ Render
    \/ AfterRender
    \/ PollSleep

Next == Writer \/ Reader \/ Rerun \/ ToggleOff \/ Tick

Spec == Init /\ [][Next]_vars

----------------------------------------------------------------------------
(* Vocabulary of the properties *)

(* every ledger the writer can hold *)
Ledgers == UNION {[1..n -> WriterRecords] : n \in 0..MaxRecords}

(* what a read observed: a complete document, or one that json cannot parse *)
WellFormed(d) == d.exists /\ \E L \in Ledgers : d.content = Serialize(L)
LedgerOf(d) == CHOOSE L \in Ledgers : d.content = Serialize(L)
Unparsable(d) == d.exists /\ d.content # <<>> /\ ~WellFormed(d)
EmptyFile(d) == d.exists /\ d.content = <<>>

LoadPcs == {"exists", "read", "delay", "retry"}
LastStep == IF steps = <<>> THEN "none" ELSE steps[Len(steps)]

(* load_ledger() has just returned to get_cached_data() *)
LoadReturned == pc = "reshape"

IsPrefix(s, t) == Len(s) <= Len(t) /\ SubSeq(t, 1, Len(s)) = s

(* the step sequences of one fetch-and-render *)
TickTraces ==
    { <<"hit", "render">>,
      <<"miss", "absent", "reshape", "render">>,
      <<"miss", "exists", "read", "reshape", "render">>,
      <<"miss", "exists", "read", "delay", "read", "reshape", "render">> }

----------------------------------------------------------------------------
(* C1: load_ledger() never fails to its caller.  Whatever the document is  *)
(* at the first read and at the retry read, and however the writer's steps *)
(* interleave, no exception leaves load_ledger() and what it returns is a  *)
(* sequence of records.                                                    *)
C1_LoadNeverFails ==
    /\ pc = "crashed" => LastStep \notin {"miss", "exists", "absent", "read", "delay"}
    /\ LoadReturned => ledger \in Ledgers

(* load returned although the file existed at the check, could not be      *)
(* parsed at the first read and was gone at the retry                      *)
C1_Witness ==
    /\ LoadReturned
    /\ Len(reads) = 2
    /\ Unparsable(reads[1])
    /\ ~reads[2].exists

(* C2: retry tolerance.  When the first read is unparsable and the         *)
(* document is well-formed at the retry read, load_ledger() returns the    *)
(* sequence parsed from the retry read.                                    *)
C2_RetryTolerance ==
    (LoadReturned /\ Len(reads) = 2 /\ Unparsable(reads[1]) /\ WellFormed(reads[2]))
        => ledger = LedgerOf(reads[2])

C2_Witness ==
    /\ LoadReturned
    /\ Len(reads) = 2
    /\ Unparsable(reads[1])
    /\ WellFormed(reads[2])
    /\ Len(LedgerOf(reads[2])) = 2
    /\ ledger = LedgerOf(reads[2])

(* C3: bounded single retry.  A load performs at most two reads and at     *)
(* most one delay, in the fixed order check, read, delay, read; a failed   *)
(* first read is followed by exactly one delay and one more read; and      *)
(* every step of the load is enabled whatever the writer does, so the load *)
(* ends after at most five steps.                                          *)
C3_BoundedSingleRetry ==
    /\ Count(steps, "read") <= 2
    /\ Count(steps, "delay") <= 1
    /\ \E t \in TickTraces : IsPrefix(steps, t)
    /\ (LoadReturned /\ reads # <<>> /\ (~reads[1].exists \/ Unparsable(reads[1])))
          => steps = <<"miss", "exists", "read", "delay", "read">>
    /\ pc \in LoadPcs => ENABLED (LoadExists \/ LoadRead \/ LoadDelay \/ LoadRetry)

(* both reads failed, on two different states of the document *)
C3_Witness ==
    /\ LoadReturned
    /\ Len(reads) = 2
    /\ Unparsable(reads[1])
    /\ Unparsable(reads[2])
    /\ reads[1] # reads[2]

(* C4: when the retry read fails too (file missing, or unparsable again)   *)
(* load_ledger() returns the empty sequence and raises nothing.            *)
C4_RetryFailureReturnsEmpty ==
    /\ (LoadReturned /\ Len(reads) = 2 /\ (~reads[2].exists \/ Unparsable(reads[2])))
          => ledger = <<>>
    /\ ~(pc = "crashed" /\ LastStep = "read" /\ Len(reads) = 2)

(* the retry failed on a truncated document that the writer has completed  *)
(* since                                                                   *)
C4_Witness ==
    /\ LoadReturned
    /\ Len(reads) = 2
    /\ Unparsable(reads[2])
    /\ ledger = <<>>
    /\ WellFormed(doc)
    /\ LedgerOf(doc) # <<>>

(* C5: a missing document, or one that is empty when read, gives the empty *)
(* sequence; a document found missing by the existence check is not read,  *)
(* and one observed empty causes no delay and no second read.              *)
C5_MissingOrEmptyIsEmpty ==
    /\ (Len(steps) >= 2 /\ steps[2] = "absent")
          => /\ reads = <<>>
             /\ pc \notin {"read", "delay", "retry"}
             /\ ledger = <<>>
    /\ (LoadReturned /\ reads # <<>> /\ EmptyFile(reads[1]))
          => /\ ledger = <<>>
             /\ steps = <<"miss", "exists", "read">>
    /\ (LoadReturned /\ \A i \in 1..Len(reads) : ~reads[i].exists \/ EmptyFile(reads[i]))
          => ledger = <<>>

C5_Witness ==
    /\ LoadReturned
    /\ reads = <<FileWith(<<>>)>>
    /\ ledger = <<>>

(* C6: no error ends the Live Poll Loop.  Whatever the document holds at a *)
(* tick (absent, empty, unparsable, well-formed, or parsable with a record *)
(* that lacks a required field), the fetch and the render complete without *)
(* an uncaught error.                                                      *)
C6_PollLoopNeverCrashes == pc # "crashed"

C8_ReadOnlyLedger == [][doc' # doc => Writer]_vars

(* the dashboard has read the document twice and drawn it *)
C8_Witness ==
    /\ pc = "rendered"
    /\ Len(reads) = 2
    /\ frame.kind = "dashboard"
    /\ doc = reads[2]

(* C9: single consistent snapshot.  The frame drawn in a tick comes from   *)
(* one read: after a load, from the last read when that read saw a         *)
(* complete document holding records, and otherwise it is the no-data      *)
(* notice (never the records of a truncated document, never a mixture of   *)
(* two reads); on a cache hit, from the cached table.  The steps of the    *)
(* tick happen in the order read, reshape, render.                         *)
C9_SingleSnapshot ==
    pc = "rendered" =>
        /\ steps \in TickTraces
        /\ IF steps[1] = "hit"
           THEN frame = render_dashboard_content(cache.df, rounds_to_show)
           ELSE IF reads # <<>> /\ WellFormed(reads[Len(reads)])
                              /\ LedgerOf(reads[Len(reads)]) # <<>>
           THEN /\ frame.kind = "dashboard"
                /\ \E o \in ledger_to_df(LedgerOf(reads[Len(reads)])) :
                      frame.table = TailRows(o.df, rounds_to_show)
           ELSE frame.kind = "notice"

(* the first read was truncated, the retry read complete, and the writer   *)
(* changed the document again before the frame was drawn                   *)
C9_Witness ==
    /\ pc = "rendered"
    /\ Len(reads) = 2
    /\ Unparsable(reads[1])
    /\ frame.kind = "dashboard"
    /\ doc # reads[2]

----------------------------------------------------------------------------
(* ledger_to_df on its own: every sequence of up to MaxRows well-formed    *)
(* records with rounds in 1..MaxRound, each record with its own timestamp  *)

MaxRound == 3

Timestamps == <<"t1", "t2", "t3", "t4", "t5", "t6", "t7", "t8">>

ReshapeInputs ==
    UNION {{[i \in 1..n |-> MkRecord(rounds[i], Timestamps[i], 50 + i,
                                     <<Node("s1", 40 + i)>>)] :
              rounds \in [1..n -> 1..MaxRound]} : n \in 0..MaxRows}

InitReshape ==
    /\ ledger \in ReshapeInputs
    /\ doc = FileWith(Serialize(ledger))
    /\ wpc = "idle"
    /\ wledger = ledger
    /\ pc = "reshape"
    /\ phase = "initial"
    /\ df = EmptyTable
    /\ frame = NoFrame
    /\ cache = NoCache
    /\ cacheAge = TTL
    /\ steps = <<"miss", "exists", "read">>
    /\ reads = <<doc>>
    /\ rounds_to_show = 1
    /\ auto_refresh = TRUE
    /\ err = "none"
    /\ call = NoCall

SpecReshape == InitReshape /\ [][Reshape]_vars

StableSorted(rows) == Reorder(rows, CHOOSE p \in StableOrders(rows) : TRUE)

(* C10: sort stability.  ledger_to_df returns one row per input record,    *)
(* ascending by round, and rows with equal rounds keep their input order.  *)
C10_SortIsStable ==
    (pc = "render" /\ LastStep = "reshape")
        => df.rows = StableSorted(FrameRows(ledger))

(* what does hold: one row per record, ascending by round *)
C10_SortedByRound ==
    (pc = "render" /\ LastStep = "reshape")
        => /\ Len(df.rows) = Len(ledger)
           /\ \A r \in Range(FrameRows(ledger)) :
                 Count(df.rows, r) = Count(FrameRows(ledger), r)
           /\ \A i \in 1..(Len(df.rows) - 1) : df.rows[i]["round"] <= df.rows[i + 1]["round"]

----------------------------------------------------------------------------
(* ledger_to_df and render_dashboard_content on their own: every sequence  *)
(* of up to MaxViewRows well-formed records whose round, node set and      *)
(* global accuracy vary, under every visible-round window                  *)

MaxViewRows == 2

ViewRounds == {1, 2, PerfRound}

ViewAccuracies == {50, 62}

ViewNodeSets == {<<>>, <<"s1">>, <<"s2">>, <<"s1", "s2">>}

(* the record at position i: its own timestamp, and node accuracies that   *)
(* start at 0 for the first node of the first record                       *)
ViewRecord(i, round, acc, ids) ==
    [MkRecord(round, Timestamps[i], acc,
              [j \in 1..Len(ids) |-> Node(ids[j], 10 * (i - 1) + 5 * (j - 1))])
     EXCEPT !.block_tx = LongTx]

ViewChoices == [round : ViewRounds, acc : ViewAccuracies, ids : ViewNodeSets]

ViewInputs ==
    UNION {{[i \in 1..n |-> ViewRecord(i, ch[i].round, ch[i].acc, ch[i].ids)] :
              ch \in [1..n -> ViewChoices]} : n \in 0..MaxViewRows}

InitView ==
    /\ ledger \in ViewInputs
    /\ rounds_to_show \in WindowValues
    /\ doc = FileWith(Serialize(ledger))
    /\ wpc = "idle"
    /\ wledger = ledger
    /\ pc = "reshape"
    /\ phase = "initial"
    /\ df = EmptyTable
    /\ frame = NoFrame
    /\ cache = NoCache
    /\ cacheAge = TTL
    /\ steps = <<"miss", "exists", "read">>
    /\ reads = <<doc>>
    /\ auto_refresh = TRUE
    /\ err = "none"
    /\ call = NoCall

SpecView == InitView /\ [][Reshape \/ Render]_vars

(* the table has just been built from ledger *)
Reshaped == pc = "render" /\ LastStep = "reshape"

NodeIds(entry) == {entry.node_accuracies[j].k : j \in 1..Len(entry.node_accuracies)}

AccuracyOf(entry, k) ==
    entry.node_accuracies[CHOOSE j \in 1..Len(entry.node_accuracies) :
                             entry.node_accuracies[j].k = k].v

(* the input record a row was built from: timestamps are unique *)
EntryOf(row) == ledger[CHOOSE i \in 1..Len(ledger) : ledger[i].timestamp = row["timestamp"]]

(* C11: node sparsity.  The table has one column per node identifier seen  *)
(* in any record, named by the prefix plus the identifier; a row whose     *)
(* record has the node carries that record's accuracy, and a row whose     *)
(* record lacks it holds "no value", which is not zero.                    *)
C11_NodeSparsity ==
    (Reshaped /\ ledger # <<>>) =>
        LET ids == UNION {NodeIds(ledger[i]) : i \in 1..Len(ledger)}
            nodeCols == Range(df.columns) \ Range(BaseColumns)
        IN  /\ nodeCols = {"Store_" \o k : k \in ids}
            /\ Len(df.columns) = Cardinality(Range(df.columns))
            /\ NoValue \notin 0..100
            /\ \A r \in 1..Len(df.rows) : \A k \in ids :
                  df.rows[r]["Store_" \o k] =
                      IF k \in NodeIds(EntryOf(df.rows[r]))
                      THEN AccuracyOf(EntryOf(df.rows[r]), k)
                      ELSE NoValue

(* one row lacks a node for which another row reports the accuracy 0 *)
C11_Witness ==
    /\ Reshaped
    /\ "Store_s1" \in Range(df.columns)
    /\ \E a, b \in 1..Len(df.rows) :
          /\ df.rows[a]["Store_s1"] = 0
          /\ df.rows[b]["Store_s1"] = NoValue

(* a frame has just been drawn, or the render step has just raised *)
Rendered == LastStep = "render"

(* C12: empty-table handling.  The reshaper gives the empty table for an   *)
(* empty record sequence, and rendering an empty table draws the no-data   *)
(* notice: no row is read and no exception ends the script.                *)
C12_EmptyTableHandling ==
    /\ (Reshaped /\ ledger = <<>>) => (df = EmptyTable /\ err = "none")
    /\ (Rendered /\ df.rows = <<>>) =>
          /\ pc = "rendered"
          /\ err = "none"
          /\ frame.kind = "notice"
          /\ frame.table = EmptyTable

(* the notice is on screen for an empty ledger *)
C12_Witness ==
    /\ Rendered
    /\ ledger = <<>>
    /\ df = EmptyTable
    /\ frame.kind = "notice"

(* C13, the part that holds: with auto-refresh off the script never        *)
(* reaches line 266, so it neither sleeps nor fetches a second time        *)
C13_IdleNeverSleeps ==
    ~auto_refresh =>
        /\ phase = "initial"
        /\ pc # "sleep"
        /\ Count(steps, "hit") + Count(steps, "miss") <= 1
        /\ Count(steps, "render") <= 1

(* C13: Idle mode.  With auto-refresh switched off before the first tick   *)
(* the script fetches once, renders once and finishes: it never enters the *)
(* sleep/refresh cycle, and it ends in the finished state with one frame   *)
(* drawn, not in an uncaught exception.                                    *)
C13_IdleRendersOnceAndFinishes ==
    ~auto_refresh =>
        /\ phase = "initial"
        /\ pc \notin {"sleep", "crashed"}
        /\ Count(steps, "render") <= 1
        /\ pc = "done" => (Count(steps, "render") = 1 /\ frame # NoFrame)

(* an Idle run that finished after its single render *)
C13_Witness ==
    /\ ~auto_refresh
    /\ pc = "done"
    /\ Count(steps, "render") = 1
    /\ frame.kind = "dashboard"

(* C14, the parts that hold: the session starts Active, only the operator  *)
(* leaves Active, and an Active script never runs off the end of the loop  *)
C14_ActiveHasNoNaturalExit ==
    /\ (auto_refresh => pc # "done")
    /\ (phase = "loop" => auto_refresh)

C14_OnlyOperatorLeavesActive == [][auto_refresh' # auto_refresh => ToggleOff]_vars

(* C14: Active mode.  The session starts Active and, while Active, the     *)
(* script has no exit: after the initial render it keeps cycling through   *)
(* sleep, re-fetch and re-render, so it is never found ended, neither      *)
(* finished nor stopped by an uncaught exception.                          *)
C14_ActiveLoopNeverExits ==
    auto_refresh => pc \notin {"done", "crashed"}

(* an Active script in its second tick *)
C14_Witness ==
    /\ auto_refresh
    /\ phase = "loop"
    /\ pc = "rendered"
    /\ Count(steps, "render") = 1
    /\ frame.kind = "dashboard"

(* the dashboard has just been drawn from df under the window rounds_to_show *)
Drawn == Rendered /\ pc = "rendered" /\ frame.kind = "dashboard"

(* C15: delta edge case.  The delta of the accuracy tile is taken on the   *)
(* table left by the visible-round window: with fewer than two rows there  *)
(* the previous value is the latest one and the delta is 0; with two or    *)
(* more it is the last row's global accuracy minus the one before it.      *)
C15_DeltaOnWindowedTable ==
    Drawn =>
        LET rows == frame.table.rows
            k == Len(rows)
        IN  /\ frame.table = TailRows(df, rounds_to_show)
            /\ k = Min(rounds_to_show, Len(df.rows))
            /\ frame.accuracy = rows[k]["global_accuracy"]
            /\ k < 2 => frame.delta = 0
            /\ k >= 2 => frame.delta =
                  rows[k]["global_accuracy"] - rows[k - 1]["global_accuracy"]

(* two rounds with different accuracies shown through a window of one row *)
C15_Witness ==
    /\ Drawn
    /\ Len(df.rows) = 2
    /\ df.rows[1]["global_accuracy"] # df.rows[2]["global_accuracy"]
    /\ rounds_to_show = 1
    /\ frame.delta = 0

(* C16, what the figure is: the number of Store_ columns of the table,     *)
(* that is of node identifiers seen in any record of the ledger, whether   *)
(* or not the round is inside the window or the latest row has a value     *)
C16_ActiveNodesCountsColumns ==
    Drawn =>
        frame.active_nodes =
            Cardinality(UNION {NodeIds(ledger[i]) : i \in 1..Len(ledger)})

(* C16: Active Nodes count.  For a non-empty ledger the Active Nodes       *)
(* figure equals the number of node identifiers that have an accuracy in   *)
(* the record of the latest round shown, also when the node set differs    *)
(* between rounds.                                                         *)
C16_ActiveNodesOfLatestRound ==
    Drawn =>
        LET latest == frame.table.rows[Len(frame.table.rows)]
        IN  frame.active_nodes = Cardinality(NodeIds(EntryOf(latest)))

(* the end-to-end scenario: the latest round reports s1 and s2, the count is 2 *)
C16_Witness ==
    /\ Drawn
    /\ Len(df.rows) = 2
    /\ NodeIds(EntryOf(df.rows[1])) = {"s1"}
    /\ NodeIds(EntryOf(df.rows[2])) = {"s1", "s2"}
    /\ frame.active_nodes = 2

(* the node columns of a table, in column order, told from the base columns *)
NodeColumnsOf(t) == SelectSeq(t.columns, LAMBDA c : c \notin Range(BaseColumns))

(* the position of a column in a table *)
ColumnIndex(t, c) == CHOOSE i \in 1..Len(t.columns) : t.columns[i] = c

(* the alias letters given to a sequence of node identifiers taken as the  *)
(* node columns of a table                                                 *)
AliasSequence(ids) ==
    LET map == rename_map([j \in 1..Len(ids) |-> NodeColumn(ids[j])])
    IN [j \in 1..Len(map) |-> map[j].alias]

(* C18: positional relabeling.  The i-th node column, in first-appearance  *)
(* column order, is shown under the alias made from i alone ("Store_A",    *)
(* "Store_B", ...), whatever the node identifier; node sets of equal size  *)
(* get the same alias sequence; the aliases of one render are distinct;    *)
(* and the round-10 node-performance view names each node column by the    *)
(* same alias as the round table of that render.                           *)
C18_PositionalRelabeling ==
    /\ \A a, b \in ViewNodeSets : Len(a) = Len(b) => AliasSequence(a) = AliasSequence(b)
    /\ Drawn =>
          LET nodeCols == NodeColumnsOf(df)
              shown == frame.display.columns
              perf == frame.performance
          IN  /\ Len(shown) = Len(df.columns)
              /\ \A i \in 1..Len(nodeCols) :
                    shown[ColumnIndex(df, nodeCols[i])] = "Store_" \o AsciiUpper[i]
              /\ \A i \in 1..Len(df.columns) :
                    df.columns[i] \in Range(BaseColumns) => shown[i] = df.columns[i]
              /\ Cardinality(Range(shown)) = Len(shown)
              /\ perf.kind \in {"chart", "no_data"} =>
                    /\ Len(perf.node_name_map) = Len(nodeCols)
                    /\ \A i \in 1..Len(perf.node_name_map) :
                          perf.node_name_map[i].alias =
                              shown[ColumnIndex(df, perf.node_name_map[i].col)]
              /\ perf.kind = "chart" =>
                    \A i \in 1..Len(perf.data) :
                       \E c \in Range(nodeCols) :
                          /\ perf.data[i].Node = shown[ColumnIndex(df, c)]
                          /\ \E r \in 1..Len(frame.table.rows) :
                                /\ frame.table.rows[r]["round"] = PerfRound
                                /\ frame.table.rows[r][c] = perf.data[i].Accuracy

(* node s2 appears before node s1, so s2 is shown as Store_A and s1 as     *)
(* Store_B, in the round table and in the round-10 chart                   *)
C18_Witness ==
    /\ Drawn
    /\ NodeColumnsOf(df) = <<"Store_s2", "Store_s1">>
    /\ frame.display.columns[ColumnIndex(df, "Store_s2")] = "Store_A"
    /\ frame.display.columns[ColumnIndex(df, "Store_s1")] = "Store_B"
    /\ frame.performance.kind = "chart"
    /\ \E i \in 1..Len(frame.performance.data) : frame.performance.data[i].Node = "Store_A"

----------------------------------------------------------------------------
(* truncate_hash on its own: one call on a value and keep lengths drawn    *)
(* from small sets or on a long hash with the default lengths, then a      *)
(* second call on what the first returned                                  *)

MaxStrLen == 5
MaxKeep == 2

TruncateChars == {"a", "b", "."}

TruncateStrings == UNION {[1..n -> TruncateChars] : n \in 0..MaxStrLen}

TruncateValues ==
    {PyStr(chars) : chars \in TruncateStrings} \cup {LongTx, PyInt(0), PyInt(NoValue)}

TruncateKeeps ==
    {<<start_chars, end_chars>> : start_chars \in 0..MaxKeep, end_chars \in 0..MaxKeep}
        \cup {<<DefaultKeep, DefaultKeep>>}

TruncateCallOf(value, keeps, nth) ==
    [fn |-> "truncate_hash", hash_string |-> value, start_chars |-> keeps[1],
     end_chars |-> keeps[2], nth |-> nth, result |-> <<>>]

InitTruncate ==
    /\ call \in {TruncateCallOf(value, keeps, 1) :
                    value \in TruncateValues, keeps \in TruncateKeeps}
    /\ pc = "truncate"
    /\ doc = AbsentDoc
    /\ wpc = "idle"
    /\ wledger = <<>>
    /\ phase = "initial"
    /\ ledger = <<>>
    /\ df = EmptyTable
    /\ frame = NoFrame
    /\ cache = NoCache
    /\ cacheAge = TTL
    /\ steps = <<>>
    /\ reads = <<>>
    /\ rounds_to_show = Unbound
    /\ auto_refresh = TRUE
    /\ err = "none"

(* lines 77-81 *)
TruncateReturn ==
    /\ pc = "truncate"
    /\ pc' = "truncated"
    /\ call' = [call EXCEPT !.result =
                   <<truncate_hash(call.hash_string, call.start_chars, call.end_chars)>>]
    /\ UNCHANGED <<writerVars, phase, ledger, df, frame, cache, cacheAge, steps, reads,
                   rounds_to_show, auto_refresh, err>>

(* the value returned is truncated once more with the same keep lengths *)
TruncateAgain ==
    /\ pc = "truncated"
    /\ call.nth = 1
    /\ pc' = "truncate"
    /\ call' = TruncateCallOf(call.result[1], <<call.start_chars, call.end_chars>>, 2)
    /\ UNCHANGED <<writerVars, phase, ledger, df, frame, cache, cacheAge, steps, reads,
                   rounds_to_show, auto_refresh, err>>

SpecTruncate == InitTruncate /\ [][TruncateReturn \/ TruncateAgain]_vars

(* the result the contract names for a string longer than the keep lengths *)
FirstDotsLast(chars, keep_start, keep_end) ==
    [i \in 1..keep_start |-> chars[i]] \o <<".", ".", ".">>
        \o [i \in 1..keep_end |-> chars[Len(chars) - keep_end + i]]

TruncateLong(c) == c.hash_string.type = "str" /\ Len(c.hash_string.v) > c.start_chars + c.end_chars

(* C17, the part that holds: a string no longer than the keep lengths and  *)
(* a non-string come back unchanged; a longer string comes back as first,  *)
(* dots, last whenever keep_end is not 0; the output of the default call   *)
(* on a long hash has 19 characters and is truncated again by the second   *)
(* call.                                                                   *)
C17_TruncateWithKeepEnd ==
    pc = "truncated" =>
        LET h == call.hash_string
            out == call.result[1]
        IN  /\ ~TruncateLong(call) => out = h
            /\ (TruncateLong(call) /\ call.end_chars > 0) =>
                  out = PyStr(FirstDotsLast(h.v, call.start_chars, call.end_chars))
            /\ (call.nth = 1 /\ TruncateLong(call) /\ call.start_chars = DefaultKeep
                  /\ call.end_chars = DefaultKeep) => Len(out.v) = 19

(* C17: truncate(value, keep_start, keep_end).  A string longer than       *)
(* keep_start + keep_end comes back as its first keep_start characters,    *)
(* "...", and its last keep_end characters; a string no longer than that,  *)
(* and a value that is not a string, come back unchanged; so the 19        *)
(* characters the default call returns are truncated again by a second     *)
(* call, and an output of at most 16 characters is a fixed point.          *)
C17_Truncate ==
    pc = "truncated" =>
        LET h == call.hash_string
            out == call.result[1]
        IN  IF TruncateLong(call)
            THEN out = PyStr(FirstDotsLast(h.v, call.start_chars, call.end_chars))
            ELSE out = h

(* the second default call on the 19 characters returned by the first *)
C17_Witness ==
    /\ pc = "truncated"
    /\ call.nth = 2
    /\ call.start_chars = DefaultKeep
    /\ Len(call.hash_string.v) = 19
    /\ TruncateLong(call)
    /\ call.result[1] = call.hash_string

----------------------------------------------------------------------------
(* Staleness of the frames drawn by the poll loop *)

(* the script is inside a tick of the loop (lines 267-270), or was ended there *)
InTick == phase = "loop" /\ pc \notin {"sleep", "get"}

(* the last read of the current load found a complete document *)
LastReadParsed == reads # <<>> /\ WellFormed(reads[Len(reads)])

(* the frame on screen shows the table of these records under the window *)
Shows(L) ==
    /\ pc = "rendered"
    /\ \E o \in ledger_to_df(L) :
          /\ o.err = "none"
          /\ frame = render_dashboard_content(o.df, rounds_to_show)

(* C19, the part that holds: 5 seconds of sleep outlast the 1 second ttl,  *)
(* so every tick misses the cache and loads afresh, and the frame a tick   *)
(* draws is built from what that tick's own load returned                  *)
C19_TickLoadsFresh ==
    InTick =>
        /\ steps[1] = "miss"
        /\ (pc = "rendered" => Shows(ledger))
        /\ (pc = "rendered" /\ LastReadParsed) => ledger = LedgerOf(reads[Len(reads)])

(* C19: bounded staleness.  Every tick after the initial render finds the  *)
(* cache expired and loads afresh, so a tick whose read parses ends with a *)
(* frame built from that read: the records complete in the document at    *)
(* the read are on display when the tick is over.                          *)
C19_BoundedStaleness ==
    (InTick /\ steps[1] = "miss" /\ LastReadParsed /\ pc \in {"rendered", "crashed"}) =>
        Shows(LedgerOf(reads[Len(reads)]))

(* a tick has drawn a record that the writer appended after the initial render *)
C19_Witness ==
    /\ InTick
    /\ pc = "rendered"
    /\ LastReadParsed
    /\ Len(ledger) = 2
    /\ frame.kind = "dashboard"
    /\ Len(frame.table.rows) = 2

============================================================================
